---- MODULE Spec2Model ----
(***************************************************************************)
(* A model of terraform-provider-mysql (mainak90): the provider            *)
(* configuration and its connect-with-retry (mysql-provider/provider.go)   *)
(* and the mysql_database resource (mysql-provider/resource_db.go).        *)
(*                                                                         *)
(* Go strings are sequences of one-character strings, so that quoting,     *)
(* searching and slicing are computed as the code computes them.           *)
(*                                                                         *)
(* Three specifications share the module's variables:                      *)
(*   SpecText     the string functions and the statement builder           *)
(*   SpecDb       CreateDb / ReadDb / UpdateDb on one resource instance    *)
(*   SpecConnect  providerConfigure and mySQLConnect's retry loop          *)
(***************************************************************************)
EXTENDS Integers, Sequences, FiniteSets, TLC

VARIABLES
    txt,    \* SpecText: the last function application and its result
    d,      \* SpecDb: the *schema.ResourceData of one mysql_database instance
    res,    \* SpecDb: what the last resource operation did and returned
    cfg,    \* SpecConnect: the mysql.Config / MySQLConfiguration being built
    rt      \* SpecConnect: the retry loop inside mySQLConnect

vars == <<txt, d, res, cfg, rt>>

(***************************************************************************)
(* Text literals of the source.                                            *)
(***************************************************************************)
defCharSetKey == <<"C","H","A","R","A","C","T","E","R"," ","S","E","T"," ">>
defaultCollateKey == <<"C","O","L","L","A","T","E"," ">>
unknownDatabaseErr == 1049

CREATE == <<"C","R","E","A","T","E">>
ALTER == <<"A","L","T","E","R">>
DATABASE == <<"D","A","T","A","B","A","S","E">>

\* Character sets and collations used as inputs and server answers.
utf8 == <<"u","t","f","8">>
utf8mb4 == <<"u","t","f","8","m","b","4">>
latin1 == <<"l","a","t","i","n","1">>
utf8_general_ci == <<"u","t","f","8","_","g","e","n","e","r","a","l","_","c","i">>
utf8mb4_unicode_ci == <<"u","t","f","8","m","b","4","_","u","n","i","c","o","d","e","_","c","i">>
latin1_swedish_ci == <<"l","a","t","i","n","1","_","s","w","e","d","i","s","h","_","c","i">>

Space == " "
\* The character U+0060 (grave accent), which the identifier quoting is about;
\* a TLA+ string literal cannot hold it, so it is written as a two-letter atom.
Backtick == "BQ"

(***************************************************************************)
(* Go's strings package, as far as the source uses it.                     *)
(***************************************************************************)
\* strings.Index(s, sub): 0-based index of the first occurrence, -1 if none.
Index(s, sub) ==
    LET hits == { i \in 0..(Len(s) - Len(sub)) : SubSeq(s, i + 1, i + Len(sub)) = sub }
    IN  IF hits = {} THEN -1 ELSE CHOOSE i \in hits : \A j \in hits : i <= j

\* strings.IndexRune(s, r)
IndexRune(s, r) == Index(s, <<r>>)

\* strings.Contains(s, sub)
Contains(s, sub) == Index(s, sub) # -1

\* identQuoteReplacer = strings.NewReplacer(BQ, BQ BQ), applied to a string.
RECURSIVE identQuoteReplacer(_)
identQuoteReplacer(in) ==
    IF in = <<>> THEN <<>>
    ELSE (IF Head(in) = Backtick THEN <<Backtick, Backtick>> ELSE <<Head(in)>>)
         \o identQuoteReplacer(Tail(in))

\* fmt.Sprintf("BQ%sBQ", identQuoteReplacer.Replace(in)), BQ being U+0060
quoteIdentifier(in) == <<Backtick>> \o identQuoteReplacer(in) \o <<Backtick>>

\* A Go value that is a string, or the panic that ended the evaluation.
Str(s) == [panic |-> FALSE, val |-> s]
Panic == [panic |-> TRUE, val |-> <<>>]

\* extractIdentAfter(sql, keyword): sql[charsetIndex:] then remain[:spaceIndex];
\* a slice bound of -1 is a run-time panic in Go.
extractIdentAfter(sql, keyword) ==
    LET charsetIndex == Index(sql, keyword)
    IN  IF charsetIndex # -1
        THEN LET from == charsetIndex + Len(keyword)
                 remain == SubSeq(sql, from + 1, Len(sql))
                 spaceIndex == IndexRune(remain, Space)
             IN  IF spaceIndex < 0 THEN Panic ELSE Str(SubSeq(remain, 1, spaceIndex))
        ELSE Str(<<>>)

(***************************************************************************)
(* schema.ResourceData of the mysql_database resource.                     *)
(***************************************************************************)
\* The attribute names ResourceDB() declares in its Schema map.
ResourceDBSchema == {"name", "default_charset", "default_collation"}

\* An interface{} value: nil, or a string.
Nil == [nil |-> TRUE, val |-> <<>>]
Value(s) == [nil |-> FALSE, val |-> s]

\* d.Get(key): the attribute's value; for a key the schema does not declare the
\* SDK finds no schema to take a zero value from and returns a nil interface.
Get(rd, key) == IF key \in DOMAIN rd.attrs THEN Value(rd.attrs[key]) ELSE Nil

\* v.(string): the single-value type assertion panics on a nil interface.
AsString(v) == IF v.nil THEN Panic ELSE Str(v.val)

\* d.Set(key, value): writes a declared attribute; for an undeclared key it
\* returns an error ("Invalid address to set"), which every caller here drops.
Set(rd, key, value) ==
    IF key \in DOMAIN rd.attrs THEN [rd EXCEPT !.attrs[key] = value] ELSE rd

\* d.SetId(v) and d.Id()
SetId(rd, v) == [rd EXCEPT !.id = v]
Id(rd) == rd.id

\* A ResourceData with the given ID and attribute values.
ResourceData(id, name, charset, collation) ==
    [id |-> id,
     attrs |-> [k \in ResourceDBSchema |->
                  CASE k = "name" -> name
                    [] k = "default_charset" -> charset
                    [] k = "default_collation" -> collation]]

\* fmt.Sprintf("%s DATABASE %s %s %s", verb, name, charsetClause, collationClause)
SprintfStatement(verb, quotedName, defaultCharsetClause, defaultCollationClause) ==
    verb \o <<Space>> \o DATABASE \o <<Space>> \o quotedName \o <<Space>>
         \o defaultCharsetClause \o <<Space>> \o defaultCollationClause

\* databaseSQLCMD(verb, d)
databaseSQLCMD(verb, rd) ==
    LET name == AsString(Get(rd, "name"))
        defaultCharset == AsString(Get(rd, "default_character_set"))
        defaultCollation == AsString(Get(rd, "default_collation"))
    IN  IF name.panic \/ defaultCharset.panic \/ defaultCollation.panic
        THEN Panic
        ELSE LET defaultCharsetClause ==
                     IF defaultCharset.val # <<>>
                     THEN defCharSetKey \o quoteIdentifier(defaultCharset.val)
                     ELSE <<>>
                 defaultCollationClause ==
                     IF defaultCollation.val # <<>>
                     THEN defaultCollateKey \o quoteIdentifier(defaultCollation.val)
                     ELSE <<>>
             IN  Str(SprintfStatement(verb, quoteIdentifier(name.val),
                                      defaultCharsetClause, defaultCollationClause))

(***************************************************************************)
(* Inputs.                                                                 *)
(***************************************************************************)
\* Longest database name tried by the text functions.
MaxNameLen == 3

NameChars == {"a", Backtick}

RECURSIVE SeqsUpTo(_, _)
SeqsUpTo(S, n) ==
    IF n = 0 THEN {<<>>}
    ELSE LET shorter == SeqsUpTo(S, n - 1)
         IN  shorter \cup { Append(s, c) : s \in shorter, c \in S }

Names == SeqsUpTo(NameChars, MaxNameLen) \ {<<>>}

Charsets == {<<>>, utf8, utf8mb4}
Collations == {<<>>, utf8_general_ci, utf8mb4_unicode_ci}
Verbs == {CREATE, ALTER}

\* SHOW CREATE DATABASE texts, whole and cut, for extractIdentAfter.
TextPrefixes ==
    {<<>>,
     <<"C","R","E","A","T","E"," ","D","A","T","A","B","A","S","E"," ","x"," ",
       "/","*","!","4","0","1","0","0"," ","D","E","F","A","U","L","T"," ">>}
TextClauses ==
    {<<>>,
     defCharSetKey \o utf8mb4,
     defCharSetKey \o latin1,
     defaultCollateKey \o utf8mb4_unicode_ci,
     defCharSetKey \o utf8mb4 \o <<Space>> \o defaultCollateKey \o utf8mb4_unicode_ci}
TextSuffixes == {<<>>, <<Space>>, <<Space, "*", "/">>}
SqlTexts == { p \o c \o s : p \in TextPrefixes, c \in TextClauses, s \in TextSuffixes }
Keywords == {defCharSetKey, defaultCollateKey}

(***************************************************************************)
(* SpecText: the string functions applied to their inputs.                 *)
(***************************************************************************)
ApplyQuoteIdentifier ==
    \E in \in Names :
        txt' = [op |-> "quoteIdentifier", in |-> in, out |-> quoteIdentifier(in)]

ApplyExtractIdentAfter ==
    \E sql \in SqlTexts, keyword \in Keywords :
        txt' = [op |-> "extractIdentAfter", sql |-> sql, keyword |-> keyword,
                out |-> extractIdentAfter(sql, keyword)]

ApplyDatabaseSQLCMD ==
    \E verb \in Verbs, name \in Names, cs \in Charsets, col \in Collations :
        txt' = [op |-> "databaseSQLCMD", verb |-> verb, name |-> name,
                charset |-> cs, collation |-> col,
                out |-> databaseSQLCMD(verb, ResourceData(<<>>, name, cs, col))]

Idle == [op |-> "none"]

InitText ==
    /\ txt = Idle
    /\ d = Idle
    /\ res = Idle
    /\ cfg = Idle
    /\ rt = Idle

NextText ==
    \/ ApplyQuoteIdentifier /\ UNCHANGED <<d, res, cfg, rt>>
    \/ ApplyExtractIdentAfter /\ UNCHANGED <<d, res, cfg, rt>>
    \/ ApplyDatabaseSQLCMD /\ UNCHANGED <<d, res, cfg, rt>>

SpecText == InitText /\ [][NextText]_vars

(***************************************************************************)
(* Errors.                                                                 *)
(***************************************************************************)
NoErr == [kind |-> "nil"]
\* *mysql.MySQLError with its Number
MySQLError(number) == [kind |-> "MySQLError", number |-> number]
\* driver.ErrBadConn: an error that is not a *mysql.MySQLError
ErrBadConn == [kind |-> "driver.ErrBadConn"]
\* sql.ErrNoRows
ErrNoRows == [kind |-> "sql.ErrNoRows"]
\* database/sql's "expected n destination arguments in Scan, not m"
ErrScanArgs(columns, dest) == [kind |-> "sql.Scan", columns |-> columns, dest |-> dest]
\* fmt.Errorf(format, args...): a new error holding the formatted arguments
Errorf(format, args) == [kind |-> "fmt.Errorf", format |-> format, args |-> args]

(***************************************************************************)
(* The server's answers to one resource operation.                         *)
(***************************************************************************)
\* go-version's Version.GreaterThan on major.minor.patch
GreaterThan(a, b) ==
    \/ a[1] > b[1]
    \/ a[1] = b[1] /\ a[2] > b[2]
    \/ a[1] = b[1] /\ a[2] = b[2] /\ a[3] > b[3]

\* version.NewVersion("8.0.0")
requiredVersion == <<8, 0, 0>>

\* Servers: the parsed version and the version string.
Servers ==
    {[version |-> <<5, 7, 30>>, versionString |-> <<"5",".","7",".","3","0">>],
     [version |-> <<8, 0, 0>>, versionString |-> <<"8",".","0",".","0">>],
     [version |-> <<8, 0, 21>>, versionString |-> <<"8",".","0",".","2","1">>],
     [version |-> <<10, 3, 9>>,
      versionString |-> <<"1","0",".","3",".","9","-","M","a","r","i","a","D","B">>]}

MariaDB == <<"M","a","r","i","a","D","B">>

\* The columns of a SHOW COLLATION row: MySQL after 8.0.0 has a seventh
\* (Pad_attribute); MariaDB and older MySQL have six.
ShowCollationColumns(server) ==
    IF /\ ~Contains(server.versionString, <<"M","a","r","i","a","D","B">>)
       /\ \/ server.version[1] > 8
          \/ server.version[1] = 8 /\ (server.version[2] > 0 \/ server.version[3] > 0)
    THEN 7 ELSE 6

\* The default collation the server lists for a character set.
DefaultCollationOf(charset) ==
    CASE charset = utf8 -> utf8_general_ci
      [] charset = utf8mb4 -> utf8mb4_unicode_ci
      [] charset = latin1 -> latin1_swedish_ci
      [] OTHER -> <<>>

\* SHOW CREATE DATABASE rows: charset and collation, charset alone (the
\* collation is the charset's default), neither.
ShowCreateTexts ==
    { <<"C","R","E","A","T","E"," ","D","A","T","A","B","A","S","E"," ","x"," ",
        "/","*","!","4","0","1","0","0"," ","D","E","F","A","U","L","T"," ">>
      \o c \o <<Space, "*", "/">> :
      c \in {defCharSetKey \o utf8mb4 \o <<Space>> \o defaultCollateKey \o utf8mb4_unicode_ci,
             defCharSetKey \o latin1} }
    \cup {<<"C","R","E","A","T","E"," ","D","A","T","A","B","A","S","E"," ","x">>}

\* Errors a statement can fail with: unknown database, access denied (1045), a
\* broken connection.
StatementErrors == {MySQLError(unknownDatabaseErr), MySQLError(1045), ErrBadConn}

\* What the server answers to SHOW CREATE DATABASE for a name: the empty name
\* is no database name, so it only fails: with "incorrect database name" (1102)
\* or a broken connection, not with "unknown database".
ShowAnswers(name) ==
    IF name = <<>>
    THEN { [err |-> e, createSQL |-> <<>>] : e \in {MySQLError(1102), ErrBadConn} }
    ELSE { [err |-> e, createSQL |-> <<>>] : e \in StatementErrors }
         \cup { [err |-> NoErr, createSQL |-> t] : t \in ShowCreateTexts }

\* The answers to everything CreateDb may ask: its Exec, then ReadDb's queries.
Answers(name) ==
    [exec : {NoErr, MySQLError(1045)},
     show : ShowAnswers(name),
     server : Servers,
     versionErr : {NoErr, ErrBadConn},
     versionStringErr : {NoErr, ErrBadConn},
     collationErr : {NoErr, ErrNoRows, ErrBadConn}]

\* ReadDb sends no Exec, UpdateDb nothing but its Exec.
ReadAnswers(name) ==
    [exec : {NoErr},
     show : ShowAnswers(name),
     server : Servers,
     versionErr : {NoErr, ErrBadConn},
     versionStringErr : {NoErr, ErrBadConn},
     collationErr : {NoErr, ErrNoRows, ErrBadConn}]
ExecAnswers(name) ==
    { [exec |-> e, show |-> [err |-> ErrBadConn, createSQL |-> <<>>],
       server |-> CHOOSE sv \in Servers : sv.version = <<5, 7, 30>>,
       versionErr |-> NoErr, versionStringErr |-> NoErr, collationErr |-> NoErr] :
      e \in {NoErr, MySQLError(1045)} }

(***************************************************************************)
(* ReadDb, CreateDb, UpdateDb.  Each returns the ResourceData it leaves,   *)
(* the error it returns, whether it panicked, and the statements it sent.  *)
(***************************************************************************)
Outcome(rd, err, panic, queries) ==
    [rd |-> rd, err |-> err, panic |-> panic, queries |-> queries]

SHOWCREATEDATABASE ==
    <<"S","H","O","W"," ","C","R","E","A","T","E"," ","D","A","T","A","B","A","S","E"," ">>

\* ReadDb's handling of a failed SHOW CREATE DATABASE, with the return values
\* swapped between the two branches: a mutant of OnShowCreateError.
OnShowCreateErrorSwapped(rd, err) ==
    IF err.kind = "MySQLError" /\ err.number = unknownDatabaseErr
    THEN [rd |-> rd, err |-> Errorf("Error during show create database: %s", <<err>>)]
    ELSE [rd |-> SetId(rd, <<>>), err |-> NoErr]

\* ReadDb's handling of a failed SHOW CREATE DATABASE that returns the driver's
\* error as it is: a mutant of OnShowCreateError.
OnShowCreateErrorUnwrapped(rd, err) ==
    IF err.kind = "MySQLError" /\ err.number = unknownDatabaseErr
    THEN [rd |-> SetId(rd, <<>>), err |-> NoErr]
    ELSE [rd |-> rd, err |-> err]

\* ReadDb, the err != nil branch after db.QueryRow(stmtSQL).Scan(...)
OnShowCreateError(rd, err) ==
    IF err.kind = "MySQLError" /\ err.number = unknownDatabaseErr
    THEN [rd |-> SetId(rd, <<>>), err |-> NoErr]
    ELSE [rd |-> rd, err |-> Errorf("Error during show create database: %s", <<err>>)]

\* The choice of Scan destinations with 8.0.0 itself counted as MySQL 8 (>=
\* for >): a mutant of LookupScanArgs.
LookupScanArgsFrom800(server) ==
    IF /\ ~Contains(server.versionString, MariaDB)
       /\ (server.version = requiredVersion \/ GreaterThan(server.version, requiredVersion))
    THEN 7 ELSE 6

\* The number of Scan destinations of the default-collation lookup.
LookupScanArgs(server) ==
    IF ~Contains(server.versionString, MariaDB) /\ GreaterThan(server.version, requiredVersion)
    THEN 7 ELSE 6

\* db.QueryRow(stmtSQL, defaultCharset).Scan(&defaultCollation, &empty, ...)
LookupScan(answers, defaultCharset, dest) ==
    IF answers.collationErr # NoErr THEN [err |-> answers.collationErr, collation |-> <<>>]
    ELSE IF DefaultCollationOf(defaultCharset) = <<>> THEN [err |-> ErrNoRows, collation |-> <<>>]
    ELSE IF ShowCollationColumns(answers.server) # dest
         THEN [err |-> ErrScanArgs(ShowCollationColumns(answers.server), dest),
               collation |-> <<>>]
    ELSE [err |-> NoErr, collation |-> DefaultCollationOf(defaultCharset)]

\* ReadDb, the end: the three d.Set calls.
WriteAttributes(rd, name, defaultCharset, defaultCollation) ==
    Set(Set(Set(rd, "name", name),
            "default_character_set", defaultCharset),
        "default_collation", defaultCollation)

\* ReadDb, the branch that hunts for the charset's default collation.
LookupDefaultCollation(rd, answers, name, defaultCharset, q1) ==
    LET qv == [kind |-> "mySQLServerVersion"]
        qs == [kind |-> "mySQLServerVersionString"]
        dest == LookupScanArgs(answers.server)
        ql == [kind |-> "SHOW COLLATION", charset |-> defaultCharset, dest |-> dest]
        scan == LookupScan(answers, defaultCharset, dest)
    IN  IF answers.versionErr # NoErr
        THEN Outcome(rd, answers.versionErr, FALSE, <<q1, qv>>)
        ELSE IF answers.versionStringErr # NoErr
        THEN Outcome(rd, answers.versionStringErr, FALSE, <<q1, qv, qs>>)
        ELSE IF scan.err # NoErr
        THEN IF scan.err = ErrNoRows
             THEN Outcome(rd, Errorf("Charset %s has no default collation", <<defaultCharset>>),
                          FALSE, <<q1, qv, qs, ql>>)
             ELSE Outcome(rd, Errorf("Error getting default charset: %s, %s",
                                     <<scan.err, defaultCharset>>),
                          FALSE, <<q1, qv, qs, ql>>)
        ELSE Outcome(WriteAttributes(rd, name, defaultCharset, scan.collation),
                     NoErr, FALSE, <<q1, qv, qs, ql>>)

\* ReadDb(d, meta)
ReadDb(rd, answers) ==
    LET name == Id(rd)
        stmtSQL == SHOWCREATEDATABASE \o quoteIdentifier(name)
        q1 == [kind |-> "SHOW CREATE DATABASE", sql |-> stmtSQL]
    IN  IF answers.show.err # NoErr
        THEN LET r == OnShowCreateError(rd, answers.show.err)
             IN  Outcome(r.rd, r.err, FALSE, <<q1>>)
        ELSE LET defaultCharset == extractIdentAfter(answers.show.createSQL, defCharSetKey)
                 defaultCollation == extractIdentAfter(answers.show.createSQL, defaultCollateKey)
             IN  IF defaultCharset.panic \/ defaultCollation.panic
                 THEN Outcome(rd, NoErr, TRUE, <<q1>>)
                 ELSE IF defaultCollation.val = <<>> /\ defaultCharset.val # <<>>
                 THEN LookupDefaultCollation(rd, answers, name, defaultCharset.val, q1)
                 ELSE Outcome(WriteAttributes(rd, name, defaultCharset.val, defaultCollation.val),
                              NoErr, FALSE, <<q1>>)

\* CreateDb(d, meta)
CreateDb(rd, answers) ==
    LET sqlStatment == databaseSQLCMD(CREATE, rd)
        q0 == [kind |-> "Exec", sql |-> sqlStatment.val]
    IN  IF sqlStatment.panic THEN Outcome(rd, NoErr, TRUE, <<>>)
        ELSE IF answers.exec # NoErr THEN Outcome(rd, answers.exec, FALSE, <<q0>>)
        ELSE LET r == ReadDb(SetId(rd, AsString(Get(rd, "name")).val), answers)
             IN  [r EXCEPT !.queries = <<q0>> \o r.queries]

\* UpdateDb(d, meta): named by ResourceDB() and defined nowhere in the source;
\* the design gives it the builder with another verb and a single execution.
UpdateDb(rd, answers) ==
    LET sqlStatment == databaseSQLCMD(ALTER, rd)
        q0 == [kind |-> "Exec", sql |-> sqlStatment.val]
    IN  IF sqlStatment.panic THEN Outcome(rd, NoErr, TRUE, <<>>)
        ELSE Outcome(rd, answers.exec, FALSE, <<q0>>)

(***************************************************************************)
(* SpecDb: the host calls the resource's operations, one after the other,  *)
(* on one resource instance.                                               *)
(***************************************************************************)
DbNames == {<<"a">>, <<"a", Backtick, "b">>}

\* A resource not yet created (no ID) or one in the state (ID = name), with
\* the configured attributes.
InitialResources ==
    { ResourceData(id, name, cs, col) :
        <<id, name>> \in { p \in ({<<>>} \cup DbNames) \X DbNames : p[1] \in {<<>>, p[2]} },
        cs \in Charsets, col \in Collations }

\* The kinds of statement an operation sent.
Kinds(queries) == { queries[i].kind : i \in 1..Len(queries) }

\* An answer the operation did not ask for is not drawn: it stays at a fixed
\* value, so that one run of an operation is one state.
Unasked(answers, kinds) ==
    /\ "Exec" \notin kinds => answers.exec = NoErr
    /\ "SHOW CREATE DATABASE" \notin kinds => answers.show.err = ErrBadConn
    /\ "mySQLServerVersion" \notin kinds =>
           answers.versionErr = NoErr /\ answers.server.version = <<5, 7, 30>>
    /\ "mySQLServerVersionString" \notin kinds => answers.versionStringErr = NoErr
    /\ "SHOW COLLATION" \notin kinds => answers.collationErr = NoErr

Result(op, before, answers, r) ==
    [op |-> op, before |-> before, answers |-> answers,
     err |-> r.err, panic |-> r.panic, queries |-> r.queries]

DoCreateDb ==
    \E answers \in Answers(d.attrs["name"]) :
        \E r \in {CreateDb(d, answers)} :
            /\ Unasked(answers, Kinds(r.queries))
            /\ d' = r.rd
            /\ res' = Result("CreateDb", d, answers, r)

DoReadDb ==
    \E answers \in ReadAnswers(Id(d)) :
        \E r \in {ReadDb(d, answers)} :
            /\ Unasked(answers, Kinds(r.queries))
            /\ d' = r.rd
            /\ res' = Result("ReadDb", d, answers, r)

DoUpdateDb ==
    \E answers \in ExecAnswers(d.attrs["name"]) :
        \E r \in {UpdateDb(d, answers)} :
            /\ Unasked(answers, Kinds(r.queries))
            /\ d' = r.rd
            /\ res' = Result("UpdateDb", d, answers, r)

InitDb ==
    /\ d \in InitialResources
    /\ res = Idle
    /\ txt = Idle
    /\ cfg = Idle
    /\ rt = Idle

NextDb ==
    \/ DoCreateDb /\ UNCHANGED <<txt, cfg, rt>>
    \/ DoReadDb /\ UNCHANGED <<txt, cfg, rt>>
    \/ DoUpdateDb /\ UNCHANGED <<txt, cfg, rt>>

SpecDb == InitDb /\ [][NextDb]_vars

(***************************************************************************)
(* Properties of the resource operations (SpecDb).                         *)
(***************************************************************************)
\* The statements  of one kind among those sent.
CountKind(queries, kind) == Cardinality({ i \in 1..Len(queries) : queries[i].kind = kind })

\* The error the server raised during the last operation, and the kind of the
\* statement that got it (a missing row is not an error of the server).
Raised ==
    LET k == Kinds(res.queries)
        a == res.answers
    IN  IF "Exec" \in k /\ a.exec # NoErr THEN [kind |-> "Exec", err |-> a.exec]
        ELSE IF "SHOW CREATE DATABASE" \in k /\ a.show.err # NoErr
        THEN [kind |-> "SHOW CREATE DATABASE", err |-> a.show.err]
        ELSE IF "mySQLServerVersion" \in k /\ a.versionErr # NoErr
        THEN [kind |-> "mySQLServerVersion", err |-> a.versionErr]
        ELSE IF "mySQLServerVersionString" \in k /\ a.versionStringErr # NoErr
        THEN [kind |-> "mySQLServerVersionString", err |-> a.versionStringErr]
        ELSE IF "SHOW COLLATION" \in k /\ a.collationErr \notin {NoErr, ErrNoRows}
        THEN [kind |-> "SHOW COLLATION", err |-> a.collationErr]
        ELSE [kind |-> "none", err |-> NoErr]

\* An error other than "unknown database" was raised during the last operation.
OtherErrorRaised ==
    /\ res.op \in {"CreateDb", "ReadDb"}
    /\ Raised.err # NoErr
    /\ Raised.err # MySQLError(unknownDatabaseErr)

\* The failing statement was the last one sent and was sent once.
FailedOnceAndLast ==
    /\ res.queries[Len(res.queries)].kind = Raised.kind
    /\ CountKind(res.queries, Raised.kind) = 1

\* C2: when SHOW CREATE DATABASE fails with error 1049, ReadDb sets the ID to
\* the empty string and returns no error, whatever the resource held before; it
\* sends no further query and writes no attribute.
C2_UnknownDatabaseClearsState ==
    (res.op = "ReadDb" /\ res.answers.show.err = MySQLError(unknownDatabaseErr)) =>
        /\ ~res.panic
        /\ res.err = NoErr
        /\ d.id = <<>>
        /\ Len(res.queries) = 1
        /\ d.attrs = res.before.attrs

\* C2's case: a resource in the state (ID set) was read and the server said 1049.
C2_Witness ==
    /\ res.op = "ReadDb"
    /\ res.answers.show.err = MySQLError(unknownDatabaseErr)
    /\ res.before.id # <<>>
    /\ d.id = <<>>

\* C3 as stated: CreateDb of a resource configured with charset cs and
\* collation col sends both in its CREATE statement, and when the server then
\* shows the database with cs and col, the resource holds cs and col.
C3_RoundTripAsClaimed ==
    LET cs == res.before.attrs["default_charset"]
        col == res.before.attrs["default_collation"]
    IN  (res.op = "CreateDb" /\ cs # <<>> /\ col # <<>>) =>
            /\ ~res.panic
            /\ Len(res.queries) >= 1
            /\ res.queries[1].kind = "Exec"
            /\ Contains(res.queries[1].sql, defCharSetKey \o quoteIdentifier(cs))
            /\ Contains(res.queries[1].sql, defaultCollateKey \o quoteIdentifier(col))
            /\ (/\ res.err = NoErr
                /\ res.answers.show.err = NoErr
                /\ Contains(res.answers.show.createSQL,
                            defCharSetKey \o cs \o <<Space>> \o defaultCollateKey \o col))
               => (/\ d.attrs["default_charset"] = cs
                   /\ d.attrs["default_collation"] = col)

\* C6 as stated: an SQL error other than 1049 raised by a statement of CreateDb
\* or ReadDb is returned as it is, the statement is sent once, the ID is left.
C6_VerbatimAsClaimed ==
    OtherErrorRaised =>
        /\ res.err = Raised.err
        /\ FailedOnceAndLast
        /\ d.id = res.before.id

\* What ReadDb returns for an error raised by one of its statements.
Surfaced(raised) ==
    CASE raised.kind = "SHOW CREATE DATABASE" ->
             Errorf("Error during show create database: %s", <<raised.err>>)
      [] raised.kind = "SHOW COLLATION" ->
             Errorf("Error getting default charset: %s, %s",
                    <<raised.err, res.queries[Len(res.queries)].charset>>)
      [] OTHER -> raised.err

\* C6, amended: an SQL error other than 1049 raised by SHOW CREATE DATABASE or
\* by the collation lookup comes back inside a new error that carries it behind
\* a prefix; an error of CreateDb's own statement or of a version query comes
\* back as it is; the failing statement is sent once and is the last one, and
\* ReadDb leaves the ID and the attributes as they were.
C6_ErrorSurfaced ==
    OtherErrorRaised =>
        /\ ~res.panic
        /\ res.err = Surfaced(Raised)
        /\ FailedOnceAndLast
        /\ d.id = res.before.id
        /\ res.op = "ReadDb" => d = res.before

\* C6's case: ReadDb's SHOW CREATE DATABASE was refused (1045).
C6_Witness ==
    /\ res.op = "ReadDb"
    /\ res.before.id # <<>>
    /\ res.answers.show.err = MySQLError(1045)
    /\ res.err = Errorf("Error during show create database: %s", <<MySQLError(1045)>>)

\* C7 as stated: CreateDb sends its CREATE statement once and first; a failure
\* is returned unchanged with the ID unset and nothing else sent; on success
\* the ID is the name before ReadDb runs, so that a CreateDb that returns no
\* error leaves the ID equal to the name, or empty when Read got 1049.
C7_CreateOrderAsClaimed ==
    res.op = "CreateDb" =>
        /\ ~res.panic
        /\ CountKind(res.queries, "Exec") = 1
        /\ res.queries[1].kind = "Exec"
        /\ res.answers.exec # NoErr =>
               /\ res.err = res.answers.exec
               /\ d.id = res.before.id
               /\ Len(res.queries) = 1
        /\ res.answers.exec = NoErr =>
               /\ Len(res.queries) >= 2
               /\ res.queries[2].sql
                      = SHOWCREATEDATABASE \o quoteIdentifier(res.before.attrs["name"])
        /\ res.err = NoErr =>
               \/ d.id = res.before.attrs["name"]
               \/ d.id = <<>> /\ res.answers.show.err = MySQLError(unknownDatabaseErr)

\* C8 as stated: UpdateDb sends the statement databaseSQLCMD builds with the
\* verb ALTER, carrying the charset and collation clauses, and no operation
\* changes the name or the ID.
C8_UpdateAndImmutableNameAsClaimed ==
    /\ res.op = "UpdateDb" =>
           /\ ~res.panic
           /\ Len(res.queries) = 1
           /\ SubSeq(res.queries[1].sql, 1, Len(ALTER)) = ALTER
           /\ res.before.attrs["default_charset"] # <<>> =>
                  Contains(res.queries[1].sql, defCharSetKey)
           /\ res.before.attrs["default_collation"] # <<>> =>
                  Contains(res.queries[1].sql, defaultCollateKey)
    /\ res.op # "none" =>
           /\ d.attrs["name"] = res.before.attrs["name"]
           /\ d.id = res.before.id

\* The lookup of the default collation was sent.
LookupSent == "SHOW COLLATION" \in Kinds(res.queries)
LookupDest == res.queries[Len(res.queries)].dest

\* ReadDb got its row and parsed a charset and no collation.
CharsetWithoutCollation ==
    /\ res.answers.show.err = NoErr
    /\ Contains(res.answers.show.createSQL, defCharSetKey)
    /\ ~Contains(res.answers.show.createSQL, defaultCollateKey)

\* Version comparisons spelled out for 8.0.0.
AtLeast800(v) == v[1] >= 8
LaterThan800(v) == v[1] > 8 \/ (v[1] = 8 /\ (v[2] > 0 \/ v[3] > 0))

\* The charset the lookup was sent with is the one the row named.
LookupCharset == res.queries[Len(res.queries)].charset

NotMariaDB == ~Contains(res.answers.server.versionString, <<"M","a","r","i","a","D","B">>)

cleartextPasswords == <<"c","l","e","a","r","t","e","x","t">>
nativePasswords == <<"n","a","t","i","v","e">>

\* unicode.ToLower on the letters that occur in the inputs.
LowerRune(c) ==
    CASE c = "N" -> "n" [] c = "A" -> "a" [] c = "T" -> "t" [] c = "I" -> "i"
      [] c = "V" -> "v" [] c = "E" -> "e" [] c = "C" -> "c" [] c = "L" -> "l"
      [] c = "R" -> "r" [] c = "X" -> "x"
      [] OTHER -> c

\* strings.ToLower
ToLower(str) == [i \in 1..Len(str) |-> LowerRune(str[i])]

\* validation.StringInSlice(valid, ignoreCase) applied to v: no error.
StringInSlice(valid, ignoreCase, v) ==
    \E str \in valid : v = str \/ (ignoreCase /\ ToLower(v) = ToLower(str))

\* The ValidateFunc of "authentication_plugin".
ValidAuthenticationPlugin(v) ==
    StringInSlice({cleartextPasswords, nativePasswords}, TRUE, v)

\* Values a configuration may give for authentication_plugin.
PluginInputs ==
    {nativePasswords, cleartextPasswords,
     <<"N","A","T","I","V","E">>, <<"N","a","t","i","v","e">>,
     <<"C","l","e","a","r","T","e","x","t">>,
     <<"c","a","c","h","i","n","g","_","s","h","a","2">>}

\* The mysql.Config providerConfigure builds (the two fields the plugin decides).
SqlConf(plugin) ==
    [AllowNativePasswords |-> plugin = nativePasswords,
     AllowCleartextPasswords |-> plugin = cleartextPasswords]

(***************************************************************************)
(* mySQLConnect: resource.Retry(conf.ConnectRetryTimeoutSec, f).           *)
(*                                                                         *)
(* Retry (terraform-plugin-sdk v1.16.1, pinned by go.mod) runs f in a      *)
(* goroutine of its own: before every call of f that goroutine selects     *)
(* between the cancel channel and a timer (0 before the first call, then   *)
(* 500ms doubling up to 10s); the caller selects between the goroutine's   *)
(* results and time.After(timeout); on timeout it closes the cancel        *)
(* channel and waits a grace period for the goroutine to end.  Retry       *)
(* returns the error f last returned, or the timeout error when f never    *)
(* returned one.  Time is counted in ticks of 500ms up to the timeout.     *)
(***************************************************************************)
\* Largest connect_retry_timeout_sec tried.
MaxRetryTimeoutSec == 2

\* The goroutine's wait before its next call of f, in ticks: 100ms doubled and
\* raised to MinTimeout (500ms) after the first call, then doubling, at most 10s.
NextWait(wait) == IF wait = 0 THEN 1 ELSE IF 2 * wait > 20 THEN 20 ELSE 2 * wait

\* The error of the n-th attempt, from sql.Open or from db.Ping.
OpenError(n) == [kind |-> "sql.Open", attempt |-> n]
PingError(n) == [kind |-> "db.Ping", attempt |-> n]
\* resource.TimeoutError, returned by WaitForState
TimeoutError == [kind |-> "resource.TimeoutError"]

NilDb == "nil"
Handle == "*sql.DB"

\* providerConfigure up to the call of mySQLConnect and into resource.Retry:
\* the plugin has passed the schema's validation.
Configure ==
    /\ cfg = Idle
    /\ \E plugin \in PluginInputs, timeoutSec \in 0..MaxRetryTimeoutSec, proxyOk \in BOOLEAN :
        /\ ValidAuthenticationPlugin(plugin)
        /\ cfg' = [op |-> "providerConfigure", plugin |-> plugin,
                   sqlconf |-> SqlConf(plugin),
                   ConnectRetryTimeoutSec |-> timeoutSec, proxyOk |-> proxyOk]
        /\ rt' = IF proxyOk
                 THEN [pc |-> "waiting", worker |-> "select", now |-> 0, wait |-> 0,
                       wakeAt |-> 0, timeoutAt |-> 2 * timeoutSec,
                       cancelled |-> FALSE, done |-> FALSE,
                       attempts |-> 0, late |-> 0, afterSuccess |-> 0,
                       resultErr |-> NoErr, lastFailure |-> NoErr,
                       db |-> NilDb, err |-> NoErr,
                       ret |-> [db |-> NilDb, err |-> NoErr, attempts |-> 0,
                                lastFailure |-> NoErr]]
                 ELSE [op |-> "proxyDialer failed"]

Retrying == cfg # Idle /\ cfg.proxyOk

\* The goroutine's timer fired: it calls f, which calls sql.Open.
StartAttempt ==
    /\ Retrying
    /\ rt.worker = "select"
    /\ rt.wakeAt <= rt.now
    /\ rt' = [rt EXCEPT !.worker = "attempt",
                        !.attempts = @ + 1,
                        !.late = IF rt.cancelled /\ rt.attempts > 0 THEN @ + 1 ELSE @,
                        !.afterSuccess = IF rt.done THEN @ + 1 ELSE @]
    /\ UNCHANGED cfg

\* f returns: sql.Open failed, db.Ping failed, or both succeeded.
FinishAttempt ==
    /\ Retrying
    /\ rt.worker = "attempt"
    /\ \E outcome \in {"open failed", "ping failed", "ok"} :
        rt' = IF outcome = "ok"
              THEN [rt EXCEPT !.worker = "gone", !.done = TRUE,
                              !.db = Handle, !.err = NoErr, !.resultErr = NoErr]
              ELSE LET e == IF outcome = "open failed"
                            THEN OpenError(rt.attempts) ELSE PingError(rt.attempts)
                   IN  [rt EXCEPT !.worker = "select",
                                  !.db = IF outcome = "open failed" THEN NilDb ELSE Handle,
                                  !.err = e, !.resultErr = e, !.lastFailure = e,
                                  !.wait = NextWait(rt.wait),
                                  !.wakeAt = rt.now + NextWait(rt.wait)]
    /\ UNCHANGED cfg

\* 500ms pass: nothing is due (no timer of the goroutine, no timeout, no result).
Tick ==
    /\ Retrying
    /\ rt.pc = "waiting"
    /\ rt.now < rt.timeoutAt
    /\ ~rt.done
    /\ ~(rt.worker = "select" /\ rt.wakeAt <= rt.now)
    /\ rt' = [rt EXCEPT !.now = @ + 1]
    /\ UNCHANGED cfg

\* time.After(conf.Timeout) fired in WaitForState: it closes the cancel channel.
Timeout ==
    /\ Retrying
    /\ rt.pc = "waiting"
    /\ rt.now >= rt.timeoutAt
    /\ rt' = [rt EXCEPT !.pc = "grace", !.cancelled = TRUE]
    /\ UNCHANGED cfg

\* The goroutine's select took the closed cancel channel: it returns.
Cancelled ==
    /\ Retrying
    /\ rt.worker = "select"
    /\ rt.cancelled
    /\ rt' = [rt EXCEPT !.worker = "gone"]
    /\ UNCHANGED cfg

\* What mySQLConnect returns for Retry's return value (with, for the properties,
\* the attempts started and the last failure seen by then).
ConnectResult(db, retryError) ==
    IF retryError # NoErr
    THEN [db |-> NilDb, err |-> Errorf("Could not connect to server: %s", <<retryError>>),
          attempts |-> rt.attempts, lastFailure |-> rt.lastFailure]
    ELSE [db |-> db, err |-> NoErr, attempts |-> rt.attempts, lastFailure |-> rt.lastFailure]

\* Retry's return value: the error f last returned, else WaitForState's error.
RetryResult(resultErr, waitErr) == IF resultErr = NoErr THEN waitErr ELSE resultErr

\* WaitForState received the goroutine's success: Retry and mySQLConnect return.
ReturnSuccess ==
    /\ Retrying
    /\ rt.pc \in {"waiting", "grace"}
    /\ rt.done
    /\ rt' = [rt EXCEPT !.pc = "returned",
                        !.ret = ConnectResult(rt.db, RetryResult(rt.resultErr, NoErr))]
    /\ UNCHANGED cfg

\* After the timeout the goroutine has ended, or the grace period ran out with
\* f still running: WaitForState returns its timeout error.
ReturnTimeout ==
    /\ Retrying
    /\ rt.pc = "grace"
    /\ ~rt.done
    /\ rt.worker \in {"gone", "attempt"}
    /\ rt' = [rt EXCEPT !.pc = "returned",
                        !.ret = ConnectResult(rt.db, RetryResult(rt.resultErr, TimeoutError))]
    /\ UNCHANGED cfg

InitConnect ==
    /\ cfg = Idle
    /\ rt = Idle
    /\ txt = Idle
    /\ d = Idle
    /\ res = Idle

NextConnect ==
    \/ Configure /\ UNCHANGED <<txt, d, res>>
    \/ StartAttempt /\ UNCHANGED <<txt, d, res>>
    \/ FinishAttempt /\ UNCHANGED <<txt, d, res>>
    \/ Tick /\ UNCHANGED <<txt, d, res>>
    \/ Timeout /\ UNCHANGED <<txt, d, res>>
    \/ Cancelled /\ UNCHANGED <<txt, d, res>>
    \/ ReturnSuccess /\ UNCHANGED <<txt, d, res>>
    \/ ReturnTimeout /\ UNCHANGED <<txt, d, res>>

SpecConnect == InitConnect /\ [][NextConnect]_vars

(***************************************************************************)
(* Properties of the provider configuration and the connector              *)
(* (SpecConnect).                                                          *)
(***************************************************************************)
\* C1 as stated: for every timeout, 0 included, mySQLConnect makes at least
\* one attempt and none once the timeout has been taken; without a successful
\* attempt it returns a nil handle and "Could not connect to server" carrying
\* the last failed attempt's error; after a successful attempt it makes no
\* other and returns the handle.
C1_ConnectRetryAsClaimed ==
    (Retrying /\ rt.pc = "returned") =>
        /\ rt.ret.attempts >= 1
        /\ rt.late = 0
        /\ rt.ret.err # NoErr =>
               /\ rt.ret.db = NilDb
               /\ rt.ret.lastFailure # NoErr
               /\ rt.ret.err = Errorf("Could not connect to server: %s", <<rt.ret.lastFailure>>)
        /\ rt.ret.err = NoErr =>
               /\ rt.ret.db = Handle
               /\ rt.afterSuccess = 0

\* C10 as stated: for every authentication_plugin the validation accepts,
\* exactly one of the two flags is set, the one the value names whatever its
\* letter case.
C10_ExactlyOnePluginAsClaimed ==
    cfg # Idle =>
        /\ cfg.sqlconf.AllowNativePasswords # cfg.sqlconf.AllowCleartextPasswords
        /\ ToLower(cfg.plugin) = nativePasswords => cfg.sqlconf.AllowNativePasswords
        /\ ToLower(cfg.plugin) = cleartextPasswords => cfg.sqlconf.AllowCleartextPasswords

(***************************************************************************)
(* Properties of the string functions (SpecText).                          *)
(***************************************************************************)
CountBackticks(s) == Cardinality({ i \in 1..Len(s) : s[i] = Backtick })

\* The text with every pair of backticks made one; a lone backtick shows as "?".
RECURSIVE Undouble(_)
Undouble(s) ==
    IF s = <<>> THEN <<>>
    ELSE IF Head(s) # Backtick THEN <<Head(s)>> \o Undouble(Tail(s))
    ELSE IF Len(s) >= 2 /\ s[2] = Backtick
         THEN <<Backtick>> \o Undouble(SubSeq(s, 3, Len(s)))
         ELSE <<"?">> \o Undouble(Tail(s))

\* q is the name in one pair of backticks with the backticks inside doubled.
QuotedFormOf(q, name) ==
    /\ Len(q) >= 2
    /\ q[1] = Backtick
    /\ q[Len(q)] = Backtick
    /\ CountBackticks(q) % 2 = 0
    /\ Undouble(SubSeq(q, 2, Len(q) - 1)) = name

\* quoteIdentifier wraps the name in one pair of backticks and doubles every
\* backtick inside (the part of C4 that is quoteIdentifier's alone).
QuoteIdentifierQuotes ==
    txt.op = "quoteIdentifier" => QuotedFormOf(txt.out, txt.in)

\* C4 as stated: for any name, charset and collation, databaseSQLCMD("CREATE", d)
\* gives a statement holding the quoted name, with the CHARACTER SET and COLLATE
\* clauses exactly when the value is not empty.
C4_CreateStatementAsClaimed ==
    /\ QuoteIdentifierQuotes
    /\ (txt.op = "databaseSQLCMD" /\ txt.verb = CREATE) =>
           /\ ~txt.out.panic
           /\ \E i \in 1..Len(txt.out.val), j \in 1..Len(txt.out.val) :
                  QuotedFormOf(SubSeq(txt.out.val, i, j), txt.name)
           /\ Contains(txt.out.val, defCharSetKey) <=> txt.charset # <<>>
           /\ Contains(txt.out.val, defaultCollateKey) <=> txt.collation # <<>>

\* The characters of sql after the first keyword, up to the next space or to
\* the end of the text.
TokenAfter(sql, keyword) ==
    LET from == Index(sql, keyword) + Len(keyword)
        rest == SubSeq(sql, from + 1, Len(sql))
        stops == { i \in 1..Len(rest) : rest[i] = Space }
        first == IF stops = {} THEN Len(rest) + 1
                 ELSE CHOOSE i \in stops : \A k \in stops : i <= k
    IN  SubSeq(rest, 1, first - 1)

\* C5 as stated: extractIdentAfter gives the token after the keyword (utf8mb4
\* and utf8mb4_unicode_ci for the text of the example), the empty string when
\* the keyword is absent, and a value also when the token ends the text.
C5_ExtractAsClaimed ==
    txt.op = "extractIdentAfter" =>
        /\ ~txt.out.panic
        /\ ~Contains(txt.sql, txt.keyword) => txt.out.val = <<>>
        /\ Contains(txt.sql, txt.keyword) => txt.out.val = TokenAfter(txt.sql, txt.keyword)
        /\ Contains(txt.sql, defCharSetKey \o utf8mb4 \o <<Space>> \o defaultCollateKey
                             \o utf8mb4_unicode_ci) =>
               txt.out.val = IF txt.keyword = defCharSetKey THEN utf8mb4
                             ELSE utf8mb4_unicode_ci

\* extractIdentAfter on texts in which a space follows the token (the part of
\* C5 that holds).
ExtractBeforeSpace ==
    (/\ txt.op = "extractIdentAfter"
     /\ Contains(txt.sql, txt.keyword)
     /\ Contains(txt.sql, txt.keyword \o TokenAfter(txt.sql, txt.keyword) \o <<Space>>)) =>
        /\ ~txt.out.panic
        /\ txt.out.val = TokenAfter(txt.sql, txt.keyword)

====
